---- MODULE Spec2Model ----
(***************************************************************************)
(* Model of calcProfitLoss.cpp (mexFunction): the bar-by-bar profit and    *)
(* loss kernel.  A signal is a double; the model holds it in quarters of   *)
(* a unit (One = 1.0, Half = 0.5), so 1.5 is 6, 0.25 is 1 and int() is the *)
(* truncation toward zero of that value.  Prices, bigPoint and cost are    *)
(* small integers, on which double arithmetic is exact.                    *)
(*                                                                         *)
(* The input arrays are immutable.  data, bigPoint and cost are fixed in   *)
(* Init; the signal column is fixed element by element, each element the   *)
(* first time the code reads it (sig is the prefix read so far).           *)
(***************************************************************************)
EXTENDS Integers, Sequences, FiniteSets, TLC

\* ---------------------------------------------------------------- bounds
MaxRows == 5
MaxQty == 2

\* ------------------------------------------------------- signal encoding
One == 4
Half == 2

Abs(x) == IF x < 0 THEN -x ELSE x

\* (variant) a conversion that rounds away from zero.
IntPartAway(s) == IF s >= 0 THEN (s + One - 1) \div One ELSE -((-s + One - 1) \div One)

\* int(double): truncation toward zero, in units.
IntPart(s) == IF s >= 0 THEN s \div One ELSE -((-s) \div One)

\* Integer signals, the X.5 signals -1.5, -0.5, 0.5, 1.5, and two values that
\* are neither (0.25, -1.25).
WholeSigs == {q * One : q \in (-MaxQty)..MaxQty}
HalfSigs == {d * (x * One + Half) : d \in {-1, 1}, x \in {0, 1}}
OddSigs == {1, -5}
SigVals == WholeSigs \cup HalfSigs \cup OddSigs

\* Signal columns for runs that build deep ledgers: larger whole quantities,
\* one close-out value and one value that is neither whole nor X.5.
LotSigVals == {q * One : q \in (-(MaxQty + 1))..(MaxQty + 1)} \cup {Half, 1}

\* ---------------------------------------------------------------- inputs
\* The price tables and scalars a run is given: a rising and a falling
\* zigzag market, the narrow (O|C) and the wide (4 column) form, with and
\* without commission.
Tables == {[market |-> 1,  cols |-> 2, bigPoint |-> 2, cost |-> 0],
           [market |-> -1, cols |-> 4, bigPoint |-> 2, cost |-> 3]}

OpenOf(m, r) == 50 + m * (2 * r + 5 * (r % 2))
CloseOf(m, r) == OpenOf(m, r) + m * (3 * (r % 2) - 1)
OtherOf(m, r) == OpenOf(m, r) + 20

\* The price table as MATLAB lays it out: column-major, first column Open,
\* last column Close.
DataOf(m, rows, cols) ==
    [k \in 0..(rows * cols - 1) |->
        LET c == k \div rows
            r == k % rows
        IN  IF c = 0 THEN OpenOf(m, r)
            ELSE IF c = cols - 1 THEN CloseOf(m, r)
            ELSE OtherOf(m, r)]

VARIABLES rowsData, colsData, market, BIG_POINT, COST, sigDomain, sig,
          pc, sigIdx, anyTrades, ii, openLedger, openPosition,
          cashIdx, openEQIdx, netLiqIdx, returnsIdx, feeIdx

vars == <<rowsData, colsData, market, BIG_POINT, COST, sigDomain, sig,
          pc, sigIdx, anyTrades, ii, openLedger, openPosition,
          cashIdx, openEQIdx, netLiqIdx, returnsIdx, feeIdx>>

inputs == <<rowsData, colsData, market, BIG_POINT, COST, sigDomain>>

\* The price table of the run (immutable): mxGetPr(prhs[0]).
dataInPtr == DataOf(market, rowsData, colsData)

\* sigInPtr[i] for a bar already read.
SigAt(i) == sig[i + 1]

shifter == IF colsData = 4 THEN 3 ELSE 1
SHIFT_OPEN == 0
SHIFT_CLOSE == rowsData * shifter

Zeros(n) == [k \in 0..(n - 1) |-> 0]

\* (variant) an allocation that does not clear the column.
mxCreateUninitMatrix(n) == [k \in 0..(n - 1) |-> 7]

\* Lines 193-196: mxCreateDoubleMatrix(n, 1, mxREAL) returns a zero-filled column.
mxCreateDoubleMatrix(n) == [k \in 0..(n - 1) |-> 0]

\* (variant) a line that records the magnitude of the quantity.
createLineEntryAbs(ID, qty, price) == [index |-> ID, quantity |-> Abs(qty), price |-> price]

createLineEntry(ID, qty, price) == [index |-> ID, quantity |-> qty, price |-> price]

RECURSIVE sumQty(_)
sumQty(x) == IF x = <<>> THEN 0 ELSE Head(x).quantity + sumQty(Tail(x))

\* myMath.h: whether num has a fractional part.
fraction(num) == num % One # 0

\* (variant) every fractional signal is taken for a known one.
knownAdvSigAny(advSig) == TRUE

\* Lines 469-483.
knownAdvSig(advSig) == Abs(advSig - One * IntPart(advSig)) = Half

\* ------------------------------------------------------------------ Init
\* The state on entry to mexFunction's START section (line 212): the inputs are
\* bound, the four output arrays are allocated and zero (lines 193-196).
Start ==
    /\ pc = "scan"
    /\ sigIdx = 0
    /\ anyTrades = FALSE
    /\ ii = 0
    /\ openLedger = <<>>
    /\ openPosition = 0
    /\ sig = <<>>
    /\ cashIdx = mxCreateDoubleMatrix(rowsData)
    /\ openEQIdx = mxCreateDoubleMatrix(rowsData)
    /\ netLiqIdx = mxCreateDoubleMatrix(rowsData)
    /\ returnsIdx = mxCreateDoubleMatrix(rowsData)
    /\ feeIdx = Zeros(rowsData)

Given(tb, rows) ==
    /\ rowsData = rows
    /\ colsData = tb.cols
    /\ market = tb.market
    /\ BIG_POINT = tb.bigPoint
    /\ COST = tb.cost

Init ==
    /\ \E tb \in Tables, rows \in 0..MaxRows : Given(tb, rows)
    /\ sigDomain = SigVals
    /\ Start

\* Runs over a longer column of mostly whole signals.
InitLots ==
    /\ \E tb \in Tables : tb.cost > 0 /\ Given(tb, MaxRows + 1)
    /\ sigDomain = LotSigVals
    /\ Start

\* ------------------------------------------------------- ledger operators
\* (variant) a close-out value counts as a trade in its direction.
AdditiveFromHalf(pos, s) == (pos <= 0 /\ s <= -Half) \/ (pos >= 0 /\ s >= Half)

\* Lines 259 and 300: the signal adds to (or initiates) the position.
Additive(pos, s) == (pos <= 0 /\ s <= -One) \/ (pos >= 0 /\ s >= One)

\* One ledger line closed at px: the cash term and its commission part.
LineCash(line, qty, px) == ((px - line.price) * qty * BIG_POINT) - (Abs(qty) * COST)
LineFee(qty) == Abs(qty) * COST

\* (variant) the liquidation forgets the commission.
RECURSIVE LiquidateAllNoFee(_, _, _, _)
LiquidateAllNoFee(ledger, px, cash, fee) ==
    IF ledger = <<>> THEN [cash |-> cash, fee |-> fee]
    ELSE LET f == Head(ledger)
         IN  LiquidateAllNoFee(Tail(ledger), px,
                 cash + (px - f.price) * f.quantity * BIG_POINT, fee)

\* Lines 271-277 and 314-320:
\* while (!openLedger.empty()) { cash += ...; pop_front(); }
RECURSIVE LiquidateAll(_, _, _, _)
LiquidateAll(ledger, px, cash, fee) ==
    IF ledger = <<>> THEN [cash |-> cash, fee |-> fee]
    ELSE LET f == Head(ledger)
         IN  LiquidateAll(Tail(ledger), px,
                 cash + LineCash(f, f.quantity, px), fee + LineFee(f.quantity))

\* (variant) the front line loses twice what the signal takes.
ShrinkFrontDoubled(f, needQty) == [f EXCEPT !.quantity = f.quantity + 2 * needQty]

\* Line 349: the front line keeps what the signal did not take.
ShrinkFront(f, needQty) == [f EXCEPT !.quantity = f.quantity + needQty]

\* (variant) the close-out turns the position over.
AfterCloseOutNegated(pos) == -pos

\* (variant) the close-out forgets to reset the position.
AfterCloseOutKept(pos) == pos

\* Line 279: the position after a close-out.
AfterCloseOut(pos) == 0

\* Lines 337-364:
\* while (needQty != 0) { shrink the front line, or P&L and remove it }
\* front() on an empty deque is undefined behaviour: ub.
RECURSIVE PartialLiquidation(_, _, _, _, _)
PartialLiquidation(ledger, needQty, px, cash, fee) ==
    IF needQty = 0
    THEN [ledger |-> ledger, cash |-> cash, fee |-> fee, ub |-> FALSE]
    ELSE IF ledger = <<>>
    THEN [ledger |-> ledger, cash |-> cash, fee |-> fee, ub |-> TRUE]
    ELSE LET f == Head(ledger)
         IN  IF Abs(f.quantity) > needQty
             THEN PartialLiquidation(
                     <<ShrinkFront(f, needQty)>> \o Tail(ledger),
                     0, px,
                     cash + LineCash(f, -needQty, px), fee + LineFee(needQty))
             ELSE PartialLiquidation(
                     Tail(ledger), needQty + f.quantity, px,
                     cash + LineCash(f, -f.quantity, px), fee + LineFee(f.quantity))

\* A value computed once (the code's local variables hold values).
Val(e) == CHOOSE x \in {e} : TRUE

\* Lines 251-297: the fractional ("advanced") part of a signal.
AdvancedSignal(t, s, px) ==
    IF ~knownAdvSig(s) THEN [t EXCEPT !.err = TRUE]
    ELSE IF Additive(t.pos, s) THEN t
    ELSE IF Abs(s - One * IntPart(s)) = Half
    THEN LiquidateAll(t.ledger, px, t.cash, t.fee)
         @@ [ledger |-> <<>>, pos |-> AfterCloseOut(t.pos), err |-> FALSE, ub |-> FALSE]
    ELSE [t EXCEPT !.err = TRUE]

\* Lines 299-368: the integer part of a signal.
IntegerSignal(t, s, px, bar) ==
    IF Additive(t.pos, s)
    THEN [t EXCEPT !.ledger = Append(@, createLineEntry(bar, IntPart(s), px)),
                   !.pos = @ + IntPart(s)]
    ELSE IF IntPart(Abs(s)) >= Abs(t.pos)
    THEN LET np == IntPart(s) + t.pos
         IN  LiquidateAll(t.ledger, px, t.cash, t.fee)
             @@ [ledger |-> IF np # 0 THEN <<createLineEntry(bar, np, px)>> ELSE <<>>,
                 pos |-> np, err |-> FALSE, ub |-> FALSE]
    ELSE PartialLiquidation(t.ledger, IntPart(s), px, t.cash, t.fee)
         @@ [pos |-> IntPart(One * t.pos + s), err |-> FALSE]

\* Lines 248-370: what one bar's signal does to the ledger, the position and
\* cash[bar+1].
BarResult(t, s, px, bar) ==
    IF s = 0 THEN t
    ELSE LET a == Val(IF fraction(s) THEN AdvancedSignal(t, s, px) ELSE t)
         IN  IF a.err THEN a ELSE IntegerSignal(a, s, px, bar)

\* (variant) only the front line is marked to market.
MarkToMarketFrontOnly(ledger, closePx) ==
    IF ledger = <<>> THEN 0
    ELSE (closePx - Head(ledger).price) * Head(ledger).quantity * BIG_POINT

\* Lines 383-386: open equity of every ledger line against a close price.
RECURSIVE MarkToMarket(_, _)
MarkToMarket(ledger, closePx) ==
    IF ledger = <<>> THEN 0
    ELSE ((closePx - Head(ledger).price) * Head(ledger).quantity * BIG_POINT)
         + MarkToMarket(Tail(ledger), closePx)

\* (variant) the pass also fires on a loss.
RECURSIVE NormalizeFromAnyCash(_, _)
NormalizeFromAnyCash(ll, eq) ==
    IF ll >= rowsData - 1 THEN eq
    ELSE NormalizeFromAnyCash(ll + 1,
            IF eq[ll] # cashIdx[ll + 1] /\ eq[ll + 1] = 0 /\ cashIdx[ll + 1] # 0
            THEN [eq EXCEPT ![ll] = cashIdx[ll + 1]]
            ELSE eq)

\* Lines 400-406.
RECURSIVE NormalizeFrom(_, _)
NormalizeFrom(ll, eq) ==
    IF ll >= rowsData - 1 THEN eq
    ELSE NormalizeFrom(ll + 1,
            IF eq[ll] # cashIdx[ll + 1] /\ eq[ll + 1] = 0 /\ cashIdx[ll + 1] > 0
            THEN [eq EXCEPT ![ll] = cashIdx[ll + 1]]
            ELSE eq)

\* (variant) the running sum of cash is not carried from bar to bar.
RECURSIVE AggregateFromNoCarry(_, _, _, _, _)
AggregateFromNoCarry(kk, runSum, eq, nl, rt) ==
    IF kk >= rowsData THEN [netLiq |-> nl, returns |-> rt]
    ELSE LET rs == cashIdx[kk]
             nl2 == [nl EXCEPT ![kk] = rs + eq[kk]]
         IN  AggregateFromNoCarry(kk + 1, rs, eq, nl2,
                 IF kk > 0 THEN [rt EXCEPT ![kk] = nl2[kk] - nl2[kk - 1]] ELSE rt)

\* Lines 408-421.
RECURSIVE AggregateFrom(_, _, _, _, _)
AggregateFrom(kk, runSum, eq, nl, rt) ==
    IF kk >= rowsData THEN [netLiq |-> nl, returns |-> rt]
    ELSE LET rs == runSum + cashIdx[kk]
             nl2 == [nl EXCEPT ![kk] = rs + eq[kk]]
         IN  AggregateFrom(kk + 1, rs, eq, nl2,
                 IF kk > 0 THEN [rt EXCEPT ![kk] = nl2[kk] - nl2[kk - 1]] ELSE rt)

\* --------------------------------------------------------------- actions
\* Lines 219-226: one iteration of the first-signal scan.
ScanStep ==
    /\ pc = "scan"
    /\ sigIdx < rowsData
    /\ \E s \in sigDomain :
        /\ sig' = Append(sig, s)
        /\ IF Abs(s) >= One
           THEN anyTrades' = TRUE /\ pc' = "branch" /\ UNCHANGED sigIdx
           ELSE sigIdx' = sigIdx + 1 /\ UNCHANGED <<anyTrades, pc>>
    /\ UNCHANGED <<inputs, ii, openLedger, openPosition,
                   cashIdx, openEQIdx, netLiqIdx, returnsIdx, feeIdx>>

\* Line 219: the scan ran off the end of the signal column.
ScanExit ==
    /\ pc = "scan"
    /\ sigIdx >= rowsData
    /\ pc' = "branch"
    /\ UNCHANGED <<inputs, sig, sigIdx, anyTrades, ii, openLedger, openPosition,
                   cashIdx, openEQIdx, netLiqIdx, returnsIdx, feeIdx>>

\* Lines 230-246: the first trade goes on the ledger.
Seed ==
    /\ pc = "branch"
    /\ anyTrades /\ sigIdx < rowsData
    /\ openLedger' = <<createLineEntry(sigIdx, IntPart(SigAt(sigIdx)), dataInPtr[sigIdx + 1])>>
    /\ openPosition' = IntPart(SigAt(sigIdx))
    /\ ii' = sigIdx + 1
    /\ pc' = "loop"
    /\ UNCHANGED <<inputs, sig, sigIdx, anyTrades,
                   cashIdx, openEQIdx, netLiqIdx, returnsIdx, feeIdx>>

\* Lines 425-434.
ZeroFill ==
    /\ pc = "branch"
    /\ ~(anyTrades /\ sigIdx < rowsData)
    /\ cashIdx' = Zeros(rowsData)
    /\ openEQIdx' = Zeros(rowsData)
    /\ netLiqIdx' = Zeros(rowsData)
    /\ returnsIdx' = Zeros(rowsData)
    /\ pc' = "done"
    /\ UNCHANGED <<inputs, sig, sigIdx, anyTrades, ii, openLedger, openPosition, feeIdx>>

BarStart == [ledger |-> openLedger, pos |-> openPosition, cash |-> cashIdx[ii + 1],
             fee |-> feeIdx[ii + 1], err |-> FALSE, ub |-> FALSE]

\* Lines 246-388: one iteration of the bar loop.
Bar ==
    /\ pc = "loop"
    /\ ii < rowsData - 1
    /\ \E s \in sigDomain :
        \E r \in {BarResult(Val(BarStart), s, Val(dataInPtr[ii + 1 + SHIFT_OPEN]), ii)} :
            /\ ~r.err
            /\ sig' = Append(sig, s)
            /\ IF r.ub
               THEN /\ pc' = "undefined"
                    /\ UNCHANGED <<ii, openLedger, openPosition, cashIdx, openEQIdx, feeIdx>>
               ELSE /\ openLedger' = r.ledger
                    /\ openPosition' = r.pos
                    /\ cashIdx' = [cashIdx EXCEPT ![ii + 1] = r.cash]
                    /\ feeIdx' = [feeIdx EXCEPT ![ii + 1] = r.fee]
                    /\ openEQIdx' = [openEQIdx EXCEPT ![ii + 1] =
                          IF r.pos # 0
                          THEN @ + MarkToMarket(r.ledger, dataInPtr[ii + 1 + SHIFT_CLOSE])
                          ELSE @]
                    /\ ii' = ii + 1
                    /\ pc' = "loop"
    /\ UNCHANGED <<inputs, sigIdx, anyTrades, netLiqIdx, returnsIdx>>

\* Lines 285 and 294: mexErrMsgIdAndTxt leaves mexFunction; nothing is returned.
BarAbort ==
    /\ pc = "loop"
    /\ ii < rowsData - 1
    /\ \E s \in sigDomain :
        /\ BarResult(Val(BarStart), s, Val(dataInPtr[ii + 1 + SHIFT_OPEN]), ii).err
        /\ sig' = Append(sig, s)
    /\ pc' = "error"
    /\ UNCHANGED <<inputs, sigIdx, anyTrades, ii, openLedger, openPosition,
                   cashIdx, openEQIdx, netLiqIdx, returnsIdx, feeIdx>>

\* What leaving the scope of openLedger does (line 423).  The deque was already
\* destroyed by hand at line 391, so its destructor runs a second time on an
\* object whose lifetime has ended: undefined behaviour.  A build whose
\* destructor leaves the freed map pointer null returns normally; one that
\* does not frees the map twice and the process dies.
ScopeExit == {"done", "undefined"}

\* Lines 388-423 and 436: the loop ends, the deque is destroyed, open equity is
\* cleaned, net liquidity and returns are aggregated, the deque goes out of
\* scope and mexFunction returns.
Aggregate ==
    /\ pc = "loop"
    /\ ii >= rowsData - 1
    /\ openLedger' = <<>>
    /\ \E eq \in {NormalizeFrom(1, openEQIdx)} :
        \E a \in {AggregateFrom(0, 0, eq, netLiqIdx, [returnsIdx EXCEPT ![0] = 0])} :
            /\ openEQIdx' = eq
            /\ netLiqIdx' = a.netLiq
            /\ returnsIdx' = a.returns
    /\ pc' \in ScopeExit
    /\ UNCHANGED <<inputs, sig, sigIdx, anyTrades, ii, openPosition, cashIdx, feeIdx>>

Next ==
    \/ ScanStep
    \/ ScanExit
    \/ Seed
    \/ ZeroFill
    \/ Bar
    \/ BarAbort
    \/ Aggregate

Spec == Init /\ [][Next]_vars

SpecLots == InitLots /\ [][Next]_vars

TypeOK ==
    /\ pc \in {"scan", "branch", "loop", "done", "error", "undefined"}
    /\ Len(sig) <= rowsData

\* ------------------------------------------------- vocabulary of the claims
\* A step of the bar loop: bar ii's signal is read (and either applied or
\* rejected).  NewSig is that signal, ExecPx the price it executes at.
BarTaken == pc = "loop" /\ Len(sig') = Len(sig) + 1
NewSig == sig'[Len(sig')]
ExecPx == dataInPtr[ii + 1]

Sgn(x) == IF x > 0 THEN 1 ELSE IF x < 0 THEN -1 ELSE 0

IsWhole(s) == s % One = 0
IsHalf(s) == (2 * s) % One = 0 /\ ~IsWhole(s)
\* X of a signal +/-X.5
HalfQty(s) == (Abs(s) - Half) \div One
BadEncoding(s) == ~IsWhole(s) /\ ~IsHalf(s)

\* Bars 0-based that the loop has read so far (after the first trade).
ProcessedBars == IF anyTrades THEN (sigIdx + 1)..(Len(sig) - 1) ELSE {}

\* Cash realised by closing the first n lines of a ledger at px, each line
\* paid (px - entry) * quantity * bigPoint - |quantity| * cost.
RECURSIVE CloseOutLines(_, _, _)
CloseOutLines(ledger, px, n) ==
    IF n = 0 THEN 0
    ELSE CloseOutLines(ledger, px, n - 1)
         + (px - ledger[n].price) * ledger[n].quantity * BIG_POINT
         - Abs(ledger[n].quantity) * COST

CloseOutCash(ledger, px) == CloseOutLines(ledger, px, Len(ledger))

\* ------------------------------------------------------------------- C1
\* C1: whenever the position is short and the bar's signal is -X.5 with
\* X >= 1, or the position is long and the signal is +X.5 with X >= 1, the
\* run fails with an error (and so returns nothing).
C1_IllegalReverseRejected ==
    [][(BarTaken /\ IsHalf(NewSig)
        /\ ((openPosition < 0 /\ NewSig <= -One) \/ (openPosition > 0 /\ NewSig >= One)))
       => pc' = "error"]_vars

\* ------------------------------------------------------------------- C2
\* C2 as written: a value whose fractional part is neither 0 nor 0.5, at any
\* bar of the column, makes the run fail: no run that read such a value
\* returns output.
C2_BadEncodingAnywhereFatal ==
    (\E i \in 0..(Len(sig) - 1) : BadEncoding(SigAt(i))) => pc # "done"

\* C2 amended: a value whose fractional part is neither 0 nor 0.5 on a bar
\* the loop processes (after the first-trade bar, before the final bar) makes
\* the run fail; the run stops at that bar and returns nothing.
C2_BadEncodingInLoopFatal ==
    /\ (\E i \in ProcessedBars : BadEncoding(SigAt(i))) => pc = "error"
    /\ pc = "error" => BadEncoding(SigAt(Len(sig) - 1)) /\ Len(sig) - 1 \in ProcessedBars
    /\ pc = "done" => \A i \in ProcessedBars : ~BadEncoding(SigAt(i))

\* A run that met a bad encoding on its second processed bar and failed.
C2_Witness ==
    /\ pc = "error"
    /\ Len(sig) = sigIdx + 3
    /\ BadEncoding(SigAt(sigIdx + 2))
    /\ \E i \in 0..sigIdx : BadEncoding(SigAt(i))

\* ------------------------------------------------------------------- C3
\* What the partial path realises if every unit taken from a line is paid
\* (px - entry) * sign of the line * units * bigPoint - units * cost, the
\* lines and units being the ones the loop takes.
RECURSIVE ClaimedPartialCash(_, _, _)
ClaimedPartialCash(ledger, needQty, px) ==
    IF needQty = 0 \/ ledger = <<>> THEN 0
    ELSE LET f == Head(ledger)
             c == IF Abs(f.quantity) > needQty THEN Abs(needQty) ELSE Abs(f.quantity)
             paid == (px - f.price) * Sgn(f.quantity) * c * BIG_POINT - c * COST
         IN  IF Abs(f.quantity) > needQty THEN paid
             ELSE paid + ClaimedPartialCash(Tail(ledger), needQty + f.quantity, px)

\* C3: in every liquidation path (close-all / reverse, full liquidation by a
\* whole reductive signal, partial consumption), taking c units of a line
\* with entry price e and sign s at bar i adds exactly
\* (open[i+1] - e) * s * c * bigPoint - c * cost to cash[i+1].
C3_RealizedCashFormula ==
    [][(BarTaken /\ pc' = "loop" /\ NewSig # 0)
       => cashIdx'[ii + 1] - cashIdx[ii + 1] =
            IF IsHalf(NewSig)
            THEN (IF Additive(openPosition, NewSig) THEN 0
                  ELSE CloseOutCash(openLedger, ExecPx))
            ELSE IF Additive(openPosition, NewSig) THEN 0
            ELSE IF Abs(IntPart(NewSig)) >= Abs(openPosition)
            THEN CloseOutCash(openLedger, ExecPx)
            ELSE ClaimedPartialCash(openLedger, IntPart(NewSig), ExecPx)]_vars

\* ------------------------------------------------------------------- C4
\* C4: while the loop runs, every line of the ledger has a nonzero quantity
\* of the sign of the net position, and the ledger is empty when flat.
C4_LedgerSignInvariant ==
    pc = "loop" =>
        /\ \A k \in DOMAIN openLedger :
              openLedger[k].quantity # 0
              /\ Sgn(openLedger[k].quantity) = Sgn(openPosition)
        /\ openPosition = 0 => openLedger = <<>>

\* ------------------------------------------------------------------- C5
\* C5: after the seed and after every bar, the signed sum of the ledger's
\* quantities equals openPosition.
C5_Conservation ==
    pc = "loop" => sumQty(openLedger) = openPosition

\* The loop has consumed part of a ledger and left more than one line, one
\* of them not of the position's sign.
C5_Witness ==
    /\ pc = "loop"
    /\ Len(openLedger) >= 2
    /\ openPosition > 0
    /\ \E k \in DOMAIN openLedger : openLedger[k].quantity < 0

\* ------------------------------------------------------------------- C6
\* Units of open position a signal closes: none for an additive signal, the
\* whole position for a close-all or reverse, min(|signal|, |position|) for a
\* whole reductive signal.
UnitsClosed(pos, s) ==
    IF Additive(pos, s) THEN 0
    ELSE IF IsHalf(s) THEN Abs(pos)
    ELSE IF Abs(IntPart(s)) < Abs(pos) THEN Abs(IntPart(s)) ELSE Abs(pos)

\* C6: the commission debited from cash[i+1] by the signal of bar i is cost
\* times the units of open position the signal closes, whatever the number
\* of lines consumed and the history of the ledger.
C6_CommissionLinearity ==
    [][(BarTaken /\ pc' = "loop" /\ NewSig # 0)
       => feeIdx'[ii + 1] - feeIdx[ii + 1] = COST * UnitsClosed(openPosition, NewSig)]_vars

\* ------------------------------------------------------------------- C7
\* C7: with three lines L1, L2, L3 on the ledger, a whole reductive signal of
\* magnitude q < |L1.quantity| changes cash[i+1] by an amount computed from
\* L1's entry price alone, reduces L1's magnitude by exactly q, keeps L1 at
\* the front and leaves L2 and L3 as they were.
C7_FifoFrontOnly ==
    [][(BarTaken /\ pc' = "loop" /\ Len(openLedger) = 3
        /\ IsWhole(NewSig) /\ NewSig # 0 /\ ~Additive(openPosition, NewSig)
        /\ Abs(IntPart(NewSig)) < Abs(openLedger[1].quantity))
       => LET L1 == openLedger[1]
              q == Abs(IntPart(NewSig))
          IN  /\ Len(openLedger') = 3
              /\ openLedger'[2] = openLedger[2]
              /\ openLedger'[3] = openLedger[3]
              /\ openLedger'[1].price = L1.price
              /\ openLedger'[1].index = L1.index
              /\ Abs(openLedger'[1].quantity) = Abs(L1.quantity) - q
              /\ cashIdx'[ii + 1] - cashIdx[ii + 1] =
                    (ExecPx - L1.price) * Sgn(L1.quantity) * q * BIG_POINT - q * COST]_vars

\* ------------------------------------------------------------------- C8
\* A reverse: short and +X.5, or long and -X.5, with X >= 1.
IsReverse(pos, s) ==
    IsHalf(s) /\ HalfQty(s) >= 1 /\ ((pos < 0 /\ s > 0) \/ (pos > 0 /\ s < 0))

\* C8: a reverse at a processed bar i never fails, leaves the position at
\* exactly +X (from short) or -X (from long), liquidates all prior lines into
\* cash[i+1] and leaves on the ledger exactly one line: the new signed
\* quantity, entered at open[i+1].
C8_ReverseSymmetry ==
    [][(BarTaken /\ IsReverse(openPosition, NewSig))
       => /\ pc' = "loop"
          /\ openPosition' = Sgn(NewSig) * HalfQty(NewSig)
          /\ openLedger' = <<[index |-> ii, quantity |-> Sgn(NewSig) * HalfQty(NewSig),
                              price |-> OpenOf(market, ii + 1)]>>
          /\ cashIdx'[ii + 1] = cashIdx[ii + 1] + CloseOutCash(openLedger, ExecPx)
          /\ \A k \in DOMAIN cashIdx : k # ii + 1 => cashIdx'[k] = cashIdx[k]]_vars

\* A two-line ledger has just been reversed into a single opposite line.
C8_Witness ==
    /\ pc = "loop"
    /\ ii >= sigIdx + 3
    /\ IsHalf(SigAt(ii - 1)) /\ HalfQty(SigAt(ii - 1)) >= 1
    /\ Additive(IntPart(SigAt(sigIdx)), SigAt(ii - 2))
    /\ Len(openLedger) = 1
    /\ openLedger[1].index = ii - 1
    /\ Sgn(openPosition) = -Sgn(IntPart(SigAt(sigIdx)))
    /\ cashIdx[ii] # 0

\* ------------------------------------------------------------------- C9
IsCloseAll(s) == Abs(s) = Half

\* C9: a signal of +0.5 or -0.5 at a processed bar i never fails, whatever
\* the position; afterwards the position is 0 and the ledger empty, cash[i+1]
\* has received the liquidation of exactly the lines that were open, and
\* when the position was already 0 nothing changes (cash and openEquity stay
\* as they were), so a second close-all in succession changes nothing more.
C9_CloseAll ==
    [][(BarTaken /\ IsCloseAll(NewSig))
       => /\ pc' = "loop"
          /\ openPosition' = 0
          /\ openLedger' = <<>>
          /\ cashIdx' = [cashIdx EXCEPT ![ii + 1] = @ + CloseOutCash(openLedger, ExecPx)]
          /\ openEQIdx' = openEQIdx
          /\ openPosition = 0 => (openLedger = <<>> /\ cashIdx' = cashIdx)]_vars

\* Two close-alls in succession: the first liquidated a position, the second
\* found the run flat and left cash alone.
C9_Witness ==
    /\ pc = "loop"
    /\ ii >= sigIdx + 3
    /\ IsCloseAll(SigAt(ii - 1))
    /\ IsCloseAll(SigAt(ii - 2))
    /\ SigAt(ii - 1) = -SigAt(ii - 2)
    /\ cashIdx[ii - 1] # 0
    /\ cashIdx[ii] = 0
    /\ openPosition = 0 /\ openLedger = <<>>

\* ------------------------------------------------------------------ C10
\* Bars (0-based) read so far whose signal is not 0.
NonZeroBars == {i \in 0..(Len(sig) - 1) : SigAt(i) # 0}

\* C10: if every signal is 0, or the only nonzero signal is on the final
\* bar, the four output series have the length of the table and are all 0.
C10_NoTradeIdentity ==
    (pc = "done" /\ NonZeroBars \subseteq {rowsData - 1})
    => /\ cashIdx = Zeros(rowsData)
       /\ openEQIdx = Zeros(rowsData)
       /\ netLiqIdx = Zeros(rowsData)
       /\ returnsIdx = Zeros(rowsData)

\* A finished run whose only nonzero signal is a trade on the final bar.
C10_Witness ==
    /\ pc = "done"
    /\ rowsData >= 3
    /\ NonZeroBars = {rowsData - 1}
    /\ Abs(SigAt(rowsData - 1)) >= One

\* ------------------------------------------------------------------ C11
\* The signal columns the run may have been given: the code reads the column
\* bar by bar and sig is what it has read; the bars it never reads can hold
\* any value.
RECURSIVE ColumnsFrom(_)
ColumnsFrom(read) ==
    IF Len(read) >= rowsData THEN {read}
    ELSE UNION {ColumnsFrom(Append(read, s)) : s \in sigDomain}

Columns == ColumnsFrom(sig)

\* sum of arr[0..k]
RECURSIVE SumTo(_, _)
SumTo(arr, k) == IF k < 0 THEN 0 ELSE arr[k] + SumTo(arr, k - 1)

\* The only nonzero values of the column are a whole opening quantity on
\* bar f and its exact offset on a later bar i.
RoundTrip(col, f, i) ==
    /\ f < i
    /\ IsWhole(col[f + 1]) /\ Abs(col[f + 1]) >= One
    /\ col[i + 1] = -col[f + 1]
    /\ \A k \in 1..Len(col) : k \notin {f + 1, i + 1} => col[k] = 0

\* No column is a round trip unless the bars read so far hold one or two
\* nonzero values (the opening signal, and the offsetting one if read).
MayBeRoundTrip == Cardinality(NonZeroBars) \in {1, 2}

\* What the round trip leaves in the four series.
RoundTripDone(col, f, i) ==
    /\ openPosition = 0
    /\ \A k \in 0..(rowsData - 1) : (k <= f \/ k >= i + 1) => openEQIdx[k] = 0
    /\ netLiqIdx[rowsData - 1] = SumTo(cashIdx, rowsData - 1)
    /\ SumTo(returnsIdx, rowsData - 1) = netLiqIdx[rowsData - 1]

\* C11 as written: in a run whose only nonzero signals are an opening q and
\* a later offsetting -q, on whatever bar (the scenario has it on the final
\* bar), the position ends flat, openEquity is zero before the entry and
\* after the exit, the final netLiquidity is the total realized cash and the
\* returns sum to the final netLiquidity.
C11_RoundTrip ==
    (pc = "done" /\ MayBeRoundTrip) =>
        \A col \in Columns : \A f, i \in 0..(rowsData - 1) :
            RoundTrip(col, f, i) => RoundTripDone(col, f, i)

\* C11 amended: the same when the offsetting signal is on a bar before the
\* final bar; then cash holds, on bar i+1 alone, the lot's result
\* (open[i+1] - open[f+1]) * q * bigPoint - |q| * cost.
C11_RoundTripBeforeFinalBar ==
    (pc = "done" /\ MayBeRoundTrip) =>
        \A col \in Columns : \A f \in 0..(rowsData - 1), i \in 0..(rowsData - 2) :
            RoundTrip(col, f, i)
            => /\ RoundTripDone(col, f, i)
               /\ LET q == IntPart(col[f + 1])
                  IN  cashIdx = [Zeros(rowsData) EXCEPT ![i + 1] =
                         (OpenOf(market, i + 1) - OpenOf(market, f + 1)) * q * BIG_POINT
                         - Abs(q) * COST]

\* A finished round trip of two units held over one bar, with commission.
C11_Witness ==
    /\ pc = "done"
    /\ COST > 0
    /\ \E f \in 0..(rowsData - 1), i \in 0..(rowsData - 2) :
          /\ i >= f + 2
          /\ Len(sig) >= i + 1
          /\ RoundTrip(sig, f, i)
          /\ Abs(SigAt(f)) = 2 * One
          /\ cashIdx[i + 1] # 0

\* ------------------------------------------------------------------ C12
\* C12: on every run that returns, for every bar k, netLiquidity[k] is the
\* sum of cash[0..k] plus the final openEquity[k]; returns[0] = 0 and
\* returns[k] = netLiquidity[k] - netLiquidity[k-1] for k >= 1; so the
\* returns sum to the netLiquidity of the last bar.
C12_Aggregation ==
    (pc = "done" /\ rowsData >= 1)
    => /\ \A k \in 0..(rowsData - 1) : netLiqIdx[k] = SumTo(cashIdx, k) + openEQIdx[k]
       /\ returnsIdx[0] = 0
       /\ \A k \in 1..(rowsData - 1) : returnsIdx[k] = netLiqIdx[k] - netLiqIdx[k - 1]
       /\ SumTo(returnsIdx, rowsData - 1) = netLiqIdx[rowsData - 1]

\* A finished run that realised cash on two bars and still holds a position
\* with open equity on the last bar.
C12_Witness ==
    /\ pc = "done"
    /\ openPosition # 0
    /\ openEQIdx[rowsData - 1] # 0
    /\ \E j, k \in 1..(rowsData - 1) : j < k /\ cashIdx[j] # 0 /\ cashIdx[k] # 0

\* ------------------------------------------------------------------ C13
\* A whole signal against the position and larger than it: the integer way
\* of writing a reverse.
IsWholeReverse(pos, s) ==
    IsWhole(s) /\ pos # 0 /\ Sgn(s) = -Sgn(pos) /\ Abs(IntPart(s)) > Abs(pos)

\* The step left the position, the ledger and cash[ii+1] as r has them.
StepGives(r) ==
    /\ ~r.err /\ ~r.ub
    /\ pc' = "loop"
    /\ openPosition' = r.pos
    /\ openLedger' = r.ledger
    /\ cashIdx'[ii + 1] = r.cash

\* C13: from a position P # 0, the fractional reverse X.5 (X >= 1, against
\* P) and the integer signal X + |P| of the same sign do the same at bar i:
\* the same resulting position X (signed), the same ledger (one lot of X at
\* open[i+1], origin i) and the same cash[i+1].  Every bar step taken with
\* one of the two forms ends where the other form would have ended.
C13_ReverseEquivalence ==
    [][/\ (BarTaken /\ IsReverse(openPosition, NewSig))
          => /\ StepGives(BarResult(BarStart,
                    Sgn(NewSig) * (HalfQty(NewSig) + Abs(openPosition)) * One, ExecPx, ii))
             /\ openLedger' = <<createLineEntry(ii, Sgn(NewSig) * HalfQty(NewSig),
                                                OpenOf(market, ii + 1))>>
       /\ (BarTaken /\ IsWholeReverse(openPosition, NewSig))
          => /\ StepGives(BarResult(BarStart,
                    Sgn(NewSig) * ((Abs(IntPart(NewSig)) - Abs(openPosition)) * One + Half),
                    ExecPx, ii))
             /\ openLedger' = <<createLineEntry(ii, IntPart(NewSig) + openPosition,
                                                OpenOf(market, ii + 1))>>
      ]_vars

\* A position reversed twice in a row: by 1.5 (or -1.5) and then by the whole
\* signal of two units the other way.
C13_Witness ==
    /\ pc = "loop"
    /\ ii = sigIdx + 3
    /\ Abs(IntPart(SigAt(sigIdx))) = 1
    /\ SigAt(ii - 2) = -Sgn(SigAt(sigIdx)) * (One + Half)
    /\ SigAt(ii - 1) = Sgn(SigAt(sigIdx)) * 2 * One
    /\ openPosition = Sgn(SigAt(sigIdx))
    /\ Len(openLedger) = 1 /\ openLedger[1].index = ii - 1
    /\ cashIdx[ii - 1] # 0 /\ cashIdx[ii] # 0

\* ------------------------------------------------------------------ C14
\* First in, first out: n units are taken from the front; a line of at most
\* the remaining need is removed and reduces the need by its magnitude, the
\* first line larger than the need is shrunk by it and nothing else changes.
RECURSIVE FifoConsume(_, _)
FifoConsume(ledger, n) ==
    IF n = 0 \/ ledger = <<>> THEN ledger
    ELSE LET f == Head(ledger)
         IN  IF Abs(f.quantity) > n
             THEN <<[f EXCEPT !.quantity = Sgn(f.quantity) * (Abs(f.quantity) - n)]>>
                  \o Tail(ledger)
             ELSE FifoConsume(Tail(ledger), n - Abs(f.quantity))

\* A whole signal against the position and smaller than it.
IsPartial(pos, s) ==
    IsWhole(s) /\ s # 0 /\ ~Additive(pos, s) /\ Abs(IntPart(s)) < Abs(pos)

\* C14: a whole reductive signal smaller than the position, long or short,
\* consumes the ledger from the front in order: lines no larger than the
\* remaining need are removed, the first larger line is shrunk by the need,
\* and no line is reduced by more than its own magnitude.
C14_MultiLotPartial ==
    [][(BarTaken /\ IsPartial(openPosition, NewSig))
       => /\ pc' = "loop"
          /\ openLedger' = FifoConsume(openLedger, Abs(IntPart(NewSig)))]_vars

\* ------------------------------------------------------------------ C15
\* C15: once the bar loop has run (before the normalisation pass), the bar
\* on which the first trade executes, first+1, carries the open equity of
\* the seed lot against that bar's close:
\* (close[first+1] - open[first+1]) * quantity * bigPoint.
C15_EntryBarOpenEquity ==
    (pc = "loop" /\ ii >= rowsData - 1 /\ sigIdx + 1 <= rowsData - 1)
    => openEQIdx[sigIdx + 1] =
          (CloseOf(market, sigIdx + 1) - OpenOf(market, sigIdx + 1))
          * IntPart(SigAt(sigIdx)) * BIG_POINT

\* ------------------------------------------------------------------ C16
\* Open equity of the first n lines of a ledger against a close price.
RECURSIVE EquityOfLines(_, _, _)
EquityOfLines(ledger, closePx, n) ==
    IF n = 0 THEN 0
    ELSE EquityOfLines(ledger, closePx, n - 1)
         + (closePx - ledger[n].price) * ledger[n].quantity * BIG_POINT

\* C16: for every processed bar i, before the normalisation pass,
\* openEquity[i+1] is the sum over the lines of the ledger after bar i's
\* action of (close[i+1] - entry price) * quantity * bigPoint when the
\* position after the action is not 0, and 0 when it is 0; no other entry of
\* openEquity is written at that bar.
C16_PerBarMarkToMarket ==
    [][(BarTaken /\ pc' = "loop")
       => /\ openEQIdx'[ii + 1] =
                IF openPosition' # 0
                THEN EquityOfLines(openLedger', CloseOf(market, ii + 1), Len(openLedger'))
                ELSE 0
          /\ \A k \in DOMAIN openEQIdx : k # ii + 1 => openEQIdx'[k] = openEQIdx[k]]_vars

\* The run was flat after a close-out (open equity 0 on that bar) and now
\* holds two lines with open equity on the last processed bar.
C16_Witness ==
    /\ pc = "loop"
    /\ Len(openLedger) >= 2
    /\ openEQIdx[ii] # 0
    /\ \E j \in (sigIdx + 2)..(ii - 1) : IsCloseAll(SigAt(j - 1)) /\ openEQIdx[j] = 0

\* ------------------------------------------------------------------ C17
\* The bars the normalisation pass is to overwrite, read off the open equity
\* and cash as they are before the pass.
Normalised(E, cash) ==
    {b \in 1..(rowsData - 2) : E[b] # cash[b + 1] /\ E[b + 1] = 0 /\ cash[b + 1] > 0}

IsFullReduction(pos, s) ==
    IsWhole(s) /\ s # 0 /\ ~Additive(pos, s) /\ Abs(IntPart(s)) >= Abs(pos)

\* C18: a whole reductive signal at bar i with |signal| >= |position|
\* liquidates every line into cash[i+1]; the new position is old position +
\* signal, which is 0 or of the opposite sign; the ledger is then empty when
\* the new position is 0 and otherwise holds exactly one line: the new
\* position, origin i, entered at open[i+1].
C18_FullReductionRemainder ==
    [][(BarTaken /\ IsFullReduction(openPosition, NewSig))
       => /\ pc' = "loop"
          /\ cashIdx' = [cashIdx EXCEPT ![ii + 1] = @ + CloseOutCash(openLedger, ExecPx)]
          /\ openPosition' = openPosition + IntPart(NewSig)
          /\ (openPosition' = 0 \/ Sgn(openPosition') = -Sgn(openPosition))
          /\ openLedger' = IF openPosition' = 0 THEN <<>>
                           ELSE <<[index |-> ii, quantity |-> openPosition',
                                   price |-> OpenOf(market, ii + 1)]>>]_vars

\* One unit, then two units the other way (a remainder of one is left), then
\* one unit back (the remainder is closed exactly): the run is flat.
C18_Witness ==
    /\ pc = "loop"
    /\ ii = sigIdx + 3
    /\ Abs(SigAt(sigIdx)) = One
    /\ SigAt(ii - 2) = -2 * SigAt(sigIdx)
    /\ SigAt(ii - 1) = SigAt(sigIdx)
    /\ openPosition = 0 /\ openLedger = <<>>
    /\ cashIdx[ii - 1] # 0 /\ cashIdx[ii] # 0

\* ------------------------------------------------------------------ C19
\* The position went from long to short or from short to long in this step.
SignFlipped == openPosition # 0 /\ Sgn(openPosition') = -Sgn(openPosition)

\* C19 as written: across a processed bar the position changes directly from
\* long to short or from short to long only when the bar's signal is a
\* Reverse (X.5 against the position, X >= 1).
C19_OnlyReverseFlips ==
    [][(BarTaken /\ pc' = "loop" /\ SignFlipped)
       => IsReverse(openPosition, NewSig)]_vars

\* C19 amended: the position changes sign across a processed bar only when
\* the signal is a Reverse or a whole signal against the position and larger
\* than it (the integer form of a reverse); no action, an additive signal, a
\* partial reduction, an exact full reduction and a close-all never flip it.
C19_OnlyReversalsFlip ==
    [][(BarTaken /\ pc' = "loop" /\ SignFlipped)
       => (IsReverse(openPosition, NewSig) \/ IsWholeReverse(openPosition, NewSig))]_vars

\* A position turned over twice: by a whole signal of two units against one,
\* then back by a 1.5 signal.
C19_Witness ==
    /\ pc = "loop"
    /\ ii = sigIdx + 3
    /\ Abs(SigAt(sigIdx)) = One
    /\ SigAt(ii - 2) = -2 * SigAt(sigIdx)
    /\ SigAt(ii - 1) = Sgn(SigAt(sigIdx)) * (One + Half)
    /\ openPosition = Sgn(SigAt(sigIdx))

\* ------------------------------------------------------------------ C20
\* The rows of the table.
Rows == 0..(rowsData - 1)

\* A line entered at the open of the bar after its signal bar, a bar of the
\* table.
EnteredAtNextOpen(line) ==
    /\ line.index + 1 \in Rows
    /\ line.price = OpenOf(market, line.index + 1)

\* C20: every line placed on the ledger, the seed included, is entered at the
\* open of the bar after its signal bar, and that bar exists; the seed reads
\* its price at a row of the open column, and every bar step reads its
\* prices and writes cash and openEquity at a row of the table, for every
\* signal column, also one whose first trade is on the final bar.
C20_ExecutionIndexValid ==
    [][/\ (pc = "branch" /\ pc' = "loop") => sigIdx + 1 \in Rows
       /\ BarTaken => ii + 1 \in Rows
       /\ pc' = "loop" => \A k \in DOMAIN openLedger' : EnteredAtNextOpen(openLedger'[k])
      ]_vars

\* ------------------------------------------------------------------ C21
\* The partial-liquidation loop of this step ended without front() or
\* pop_front() on an empty ledger.  (Each iteration either ends the loop or
\* removes the front line, so the loop ends or runs the ledger empty.)
PartialLoopSafe == (BarTaken /\ IsPartial(openPosition, NewSig)) => pc' = "loop"

\* C21: whatever ledger the run has built, the partial-liquidation loop
\* terminates without touching the front of an empty ledger, and every run
\* ends with its four output series or with an error: no step leaves the
\* run in any other way.
C21_EndsWithOutputOrError ==
    [][PartialLoopSafe /\ pc' \in {"scan", "branch", "loop", "done", "error"}]_vars

\* The part of C21 about the loop alone.
C21_PartialLoopSafe == [][PartialLoopSafe]_vars

====
